---- MODULE Spec2Model ----
(***************************************************************************)
(* State-machine model of validate() of the Specular token list            *)
(* (src/src/validate.ts) together with the schemas and the chain registry  *)
(* it reads (src/unnamed/part_000).                                        *)
(*                                                                         *)
(* Strings that the code transforms or measures (folder names, addresses)  *)
(* are sequences of character codes; strings that are only compared        *)
(* (symbols, names, chain keys) are TLA+ strings.                          *)
(***************************************************************************)
EXTENDS Integers, Sequences, FiniteSets, TLC

VARIABLES
  datadir,     \* the data directory: [listing, files], read-only during a run
  tokens,      \* the `tokens` argument: NoFilter or a set of folder names
  chainState,  \* what each chain's RPC endpoint answers, per chain key
  pc,          \* where validate() is
  folders,     \* the sorted and filtered folder list
  i,           \* index of the current folder in folders
  j,           \* index of the current (chain, token) pair of the current entry
  stage,       \* which check of the current entry / token is next
  cg,          \* the CoinGecko list, or NoList while undefined
  fetches,     \* number of requests made for the CoinGecko list
  results,     \* the diagnostic sequence
  calls,       \* RPC requests issued so far
  error        \* the exception that ended the run, "" while none

vars == <<datadir, tokens, chainState, pc, folders, i, j, stage, cg, fetches,
          results, calls, error>>

---------------------------------------------------------------------------
(* Bounds of the model *)

\* at most this many folders in the data directory
MaxFolders == 2

\* at most this many logo files in a folder
MaxLogoFiles == 2

---------------------------------------------------------------------------
(* Strings as character codes *)

\* String.prototype.toLowerCase on one ASCII code unit
ToLowerChar(c) == IF c \in 65..90 THEN c + 32 ELSE c

\* String.prototype.toLowerCase
toLowerCase(s) == [n \in 1..Len(s) |-> ToLowerChar(s[n])]

\* String.prototype.localeCompare on strings of ASCII letters of one case:
\* -1, 0 or 1 by alphabetical order, a proper prefix first
RECURSIVE localeCompare(_, _)
localeCompare(a, b) ==
  IF a = <<>> /\ b = <<>> THEN 0
  ELSE IF a = <<>> THEN -1
  ELSE IF b = <<>> THEN 1
  ELSE IF Head(a) < Head(b) THEN -1
  ELSE IF Head(a) > Head(b) THEN 1
  ELSE localeCompare(Tail(a), Tail(b))

\* a comparator that forgets to fold the case
compareCaseSensitive(a, b) == localeCompare(a, b)

\* the comparator handed to sort()
compareFolders(a, b) == localeCompare(toLowerCase(a), toLowerCase(b))

\* x put into the sorted sequence s behind every element that is not greater
RECURSIVE InsertSorted(_, _)
InsertSorted(x, s) ==
  IF s = <<>> THEN <<x>>
  ELSE IF compareFolders(x, Head(s)) < 0 THEN <<x>> \o s
  ELSE <<Head(s)>> \o InsertSorted(x, Tail(s))

\* Array.prototype.sort with compareFolders: a stable sort
RECURSIVE SortFolders(_)
SortFolders(s) ==
  IF s = <<>> THEN <<>>
  ELSE InsertSorted(s[Len(s)], SortFolders(SubSeq(s, 1, Len(s) - 1)))

\* the `tokens` argument left undefined
NoFilter == {<<0>>}

\* .filter(folder => !tokens || tokens.includes(folder))
FilterRequested(s, requested) ==
  SelectSeq(s, LAMBDA f : requested = NoFilter \/ f \in requested)

\* the folders validate() walks, in order
EnumerateFolders(listing, requested) ==
  FilterRequested(SortFolders(listing), requested)

---------------------------------------------------------------------------
(* JSON / JavaScript values *)

Undefined == [t |-> "undefined", s |-> "", n |-> 0]
Str(x) == [t |-> "string", s |-> x, n |-> 0]
Num(k) == [t |-> "integer", s |-> "", n |-> k]
Bool(b) == [t |-> "boolean", s |-> "", n |-> IF b THEN 1 ELSE 0]
\* the outcome of an awaited call that rejected
Thrown == [t |-> "throw", s |-> "", n |-> 0]

\* "0x" followed by 40 times the hexadecimal digit c
Address(c) == <<48, 120>> \o [n \in 1..40 |-> c]

---------------------------------------------------------------------------
(* Chain registry and schemas *)

\* chains.ts: the registry, keyed by chain
NETWORK_DATA ==
  [specular |-> [id |-> 93481, name |-> "Specular", layer |-> 2],
   sepolia  |-> [id |-> 11155111, name |-> "Sepolia", layer |-> 1]]

\* ADDRESS_TYPE: minLength and maxLength
ADDRESS_LENGTH == 42

\* the chain keys TOKEN_DATA_SCHEMA.tokens.properties names
SchemaChains == {"specular", "sepolia"}

Violation(property, message) == [property |-> property, message |-> message]

OneIf(cond, e) == IF cond THEN <<e>> ELSE <<>>

\* the "type" keyword: an undefined instance is not checked
TypeViolation(property, v, ty) ==
  OneIf(v.t # "undefined" /\ v.t # ty, Violation(property, "is not of a type(s) " \o ty))

\* TOKEN_SCHEMA on one token: only the address is constrained, the keys
\* under `overrides` are no schema keywords and check nothing
TOKEN_SCHEMA(property, token) ==
     OneIf(Len(token.address) < ADDRESS_LENGTH,
           Violation(property \o ".address", "does not meet minimum length"))
  \o OneIf(Len(token.address) > ADDRESS_LENGTH,
           Violation(property \o ".address", "does not meet maximum length"))

\* the errors of the token declared for chain c, if one is declared
ChainTokenViolations(toks, c) ==
  LET at == {n \in 1..Len(toks) : toks[n].chain = c}
  IN IF at = {} THEN <<>>
     ELSE TOKEN_SCHEMA("instance.tokens." \o c, toks[CHOOSE n \in at : TRUE])

\* TOKEN_DATA_SCHEMA.tokens: properties, additionalProperties, anyOf
TokensViolations(toks) ==
  LET extra == SelectSeq(toks, LAMBDA tk : tk.chain \notin SchemaChains)
  IN    ChainTokenViolations(toks, "specular")
     \o ChainTokenViolations(toks, "sepolia")
     \o [n \in 1..Len(extra) |->
           Violation("instance.tokens",
                     "is not allowed to have the additional property " \o extra[n].chain)]
     \o OneIf(\A n \in 1..Len(toks) : toks[n].chain \notin SchemaChains,
              Violation("instance.tokens", "is not any of [subschema 0],[subschema 1]"))

\* v.validate(data, TOKEN_DATA_SCHEMA).errors
TOKEN_DATA_SCHEMA(data) ==
     TypeViolation("instance.nonstandard", data.nonstandard, "boolean")
  \o TypeViolation("instance.name", data.name, "string")
  \o TypeViolation("instance.symbol", data.symbol, "string")
  \o TypeViolation("instance.decimals", data.decimals, "integer")
  \o TokensViolations(data.tokens)
  \o OneIf(data.extra, Violation("instance", "is not allowed to have the additional property"))
  \o OneIf(data.name = Undefined, Violation("instance", "requires property name"))
  \o OneIf(data.symbol = Undefined, Violation("instance", "requires property symbol"))
  \o OneIf(data.decimals = Undefined, Violation("instance", "requires property decimals"))

---------------------------------------------------------------------------
(* Diagnostics and the decisions of the reconciliation *)

\* one element of results; msg is the fixed part of the message
Diagnostic(type, msg, field, folder, chain) ==
  [type |-> type, msg |-> msg, field |-> field, folder |-> folder, chain |-> chain]

\* the folder exempt from chain verification
ETH == <<69, 84, 72>>

\* the CoinGecko list while the variable is undefined
NoList == [fetched |-> FALSE, tokens |-> <<>>]

\* no folder is exempt
IsStandardAlways(folder, data) == TRUE

\* folder !== 'ETH' && data.nonstandard !== true
IsStandard(folder, data) == folder # ETH /\ data.nonstandard # Bool(TRUE)

\* an override is never honoured
OverriddenNever(token, f) == FALSE

\* token.overrides?.f !== undefined
Overridden(token, f) == token.overrides[f] # Undefined

\* a decimals check that honours an expected mismatch
DecimalsVerdictWithEscape(data, em, onchain) ==
  IF onchain = Thrown THEN <<"failed to get">>
  ELSE IF data.decimals # onchain /\ em.decimals # data.decimals THEN <<"has incorrect">>
  ELSE <<>>

\* lines 125-137: the outcome of the decimals read against the declaration
DecimalsVerdict(data, em, onchain) ==
  IF onchain = Thrown THEN <<"failed to get">>
  ELSE IF data.decimals # onchain THEN <<"has incorrect">>
  ELSE <<>>

\* a symbol check that compares the expectation with the chain's value
SymbolVerdictAgainstChain(data, em, onchain) ==
  IF onchain = Thrown THEN <<"failed to get">>
  ELSE IF data.symbol # onchain /\ em.symbol # onchain THEN <<"has incorrect">>
  ELSE <<>>

\* lines 147-162
SymbolVerdict(data, em, onchain) ==
  IF onchain = Thrown THEN <<"failed to get">>
  ELSE IF data.symbol # onchain /\ em.symbol # data.symbol THEN <<"has incorrect">>
  ELSE <<>>

\* a name check that compares the expectation with the chain's value
NameVerdictAgainstChain(data, em, onchain) ==
  IF onchain = Thrown THEN <<"failed to get">>
  ELSE IF data.name # onchain /\ em.name # onchain THEN <<"has incorrect">>
  ELSE <<>>

\* lines 172-187
NameVerdict(data, em, onchain) ==
  IF onchain = Thrown THEN <<"failed to get">>
  ELSE IF data.name # onchain /\ em.name # data.name THEN <<"has incorrect">>
  ELSE <<>>

\* the verdict of field f
Verdict(f, data, em, onchain) ==
  CASE f = "decimals" -> DecimalsVerdict(data, em, onchain)
    [] f = "symbol" -> SymbolVerdict(data, em, onchain)
    [] f = "name" -> NameVerdict(data, em, onchain)

\* a failed fetch that reports nothing
FetchDiagnosticsSilent(outcome) == <<>>

\* lines 45-54: what the fetch of the list adds to results
FetchDiagnostics(outcome) ==
  OneIf(outcome = Thrown,
        Diagnostic("warning", "fetch for CoinGecko token list failed", "", <<>>, ""))

\* an invalid data file that is validated further
SchemaShortCircuitNever(errors) == FALSE

\* !result.valid
SchemaShortCircuit(errors) == errors # <<>>

\* lines 93-98: one error per schema violation
SchemaDiagnostics(folder, errors) ==
  [n \in 1..Len(errors) |->
     Diagnostic("error", "schema", errors[n].property \o ": " \o errors[n].message,
                folder, "")]

\* cg.tokens.find(t => t.address.toLowerCase() === token.address.toLowerCase())
FoundOnCoinGecko(list, token) ==
  \E n \in 1..Len(list.tokens) :
     toLowerCase(list.tokens[n]) = toLowerCase(token.address)

\* lines 196-208
CoinGeckoDiagnostics(folder, chain, token, list) ==
  OneIf(chain = "ethereum" /\ list.fetched /\ ~FoundOnCoinGecko(list, token),
        Diagnostic("warning", "not found on CoinGecko token list", "", folder, chain))

---------------------------------------------------------------------------
(* Inputs: data directories, chain states, fetch outcomes *)

NoOverrides == [decimals |-> Undefined, symbol |-> Undefined, name |-> Undefined]
AllOverrides == [decimals |-> Num(18), symbol |-> Str("FOO"), name |-> Str("Foo")]

\* overrides with any subset of the three fields present
OverrideSets ==
  [decimals : {Undefined, Num(18)}, symbol : {Undefined, Str("FOO")},
   name : {Undefined, Str("Foo")}]

NoMismatches == [decimals |-> Undefined, symbol |-> Undefined, name |-> Undefined]

\* the contents expectedMismatches.json may have
MismatchSets ==
  [decimals : {Undefined, Num(18)}, symbol : {Undefined, Str("FOO"), Str("BAR")},
   name : {Undefined, Str("Foo"), Str("Bar")}]

TokenOn(chain, address, overrides) ==
  [chain |-> chain, address |-> address, overrides |-> overrides]

\* a data.json that declares Foo / FOO / 18 and the given tokens
Declares(toks) ==
  [nonstandard |-> Undefined, name |-> Str("Foo"), symbol |-> Str("FOO"),
   decimals |-> Num(18), tokens |-> toks, extra |-> FALSE]

\* one folder: whether data.json exists and parses, the number of logo files,
\* the parsed data.json and the parsed expectedMismatches.json ({} when absent)
Folder(exists, json, logos, data, em) ==
  [exists |-> exists, json |-> json, logos |-> logos, data |-> data, em |-> em]

OnSpecular == TokenOn("specular", Address(97), NoOverrides)
OnSepolia == TokenOn("sepolia", Address(65), NoOverrides)
OnEthereum == TokenOn("ethereum", Address(99), NoOverrides)

\* the folder contents of the runs over several folders: no data file;
\* a data file that is no JSON; one without name and with a string for
\* decimals, and no logo; one whose only token is on ethereum; a nonstandard
\* one; one with every field overridden on its first chain; one with two
\* chains and as many logo files as the bound allows
BatchFolders ==
  {Folder(FALSE, TRUE, 1, Declares(<<OnSpecular>>), NoMismatches),
   Folder(TRUE, FALSE, 1, Declares(<<OnSpecular>>), NoMismatches),
   Folder(TRUE, TRUE, 0,
          [Declares(<<OnSpecular>>) EXCEPT !.name = Undefined, !.decimals = Str("18")],
          NoMismatches),
   Folder(TRUE, TRUE, 1, Declares(<<OnEthereum>>), NoMismatches),
   Folder(TRUE, TRUE, 1,
          [Declares(<<TokenOn("specular", Address(97), AllOverrides)>>)
             EXCEPT !.nonstandard = Bool(TRUE)], NoMismatches),
   Folder(TRUE, TRUE, 1,
          Declares(<<TokenOn("sepolia", Address(65), AllOverrides), OnSpecular>>),
          NoMismatches),
   Folder(TRUE, TRUE, MaxLogoFiles, Declares(<<OnSpecular, OnSepolia>>), NoMismatches)}

\* the folder names of the runs over several folders: ETH, a, B
BatchNames == {ETH, <<97>>, <<66>>}

\* readdirSync: the names in any order
Listings(names) ==
  {l \in UNION {[1..n -> names] : n \in 1..MaxFolders} :
     \A x, y \in DOMAIN l : x # y => l[x] # l[y]}

Range(f) == {f[x] : x \in DOMAIN f}

\* a contract that answers as declared, one that answers otherwise, one
\* without code whose calls revert, and an endpoint that is down
Good == [code |-> Str("0x60"), decimals |-> Num(18), symbol |-> Str("FOO"), name |-> Str("Foo")]
Bad == [code |-> Str("0x60"), decimals |-> Num(6), symbol |-> Str("BAR"), name |-> Str("Bar")]
Empty == [code |-> Str("0x"), decimals |-> Thrown, symbol |-> Thrown, name |-> Thrown]
Down == [code |-> Thrown, decimals |-> Thrown, symbol |-> Thrown, name |-> Thrown]

\* every combination of answers of one contract
ContractStates ==
  [code : {Str("0x"), Str("0x60")}, decimals : {Thrown, Num(18), Num(6)},
   symbol : {Thrown, Str("FOO"), Str("BAR"), Str("BAZ")},
   name : {Thrown, Str("Foo"), Str("Bar"), Str("Baz")}]

\* what fetch(...).json() may give: a rejection, or a list that holds the
\* address 0xAA..A
CoinGeckoOutcomes == {Thrown, [fetched |-> TRUE, tokens |-> <<Address(65)>>]}

\* the folder FOO
FOO == <<70, 79, 79>>

---------------------------------------------------------------------------
(* The state machine *)

Start ==
  /\ pc = "enumerate"
  /\ folders = <<>>
  /\ i = 0
  /\ j = 0
  /\ stage = "load"
  /\ cg = NoList
  /\ fetches = 0
  /\ results = <<>>
  /\ calls = <<>>
  /\ error = ""

\* one folder with one token on one chain, every combination of overrides,
\* expected mismatches and answers of the contract
InitField ==
  /\ \E o \in OverrideSets, em \in MismatchSets :
       datadir = [listing |-> <<FOO>>,
                  files |-> (FOO :> Folder(TRUE, TRUE, 1,
                                           Declares(<<TokenOn("specular", Address(97), o)>>),
                                           em))]
  /\ tokens = NoFilter
  /\ \E c \in ContractStates : chainState = [specular |-> c, sepolia |-> Good]
  /\ Start

\* several folders in any order, some requested, coarse chain states
InitBatch ==
  /\ \E l \in Listings(BatchNames) :
       \E files \in [Range(l) -> BatchFolders] :
          datadir = [listing |-> l, files |-> files]
  /\ tokens \in {NoFilter, {ETH, <<97>>}}
  /\ \E c \in {Bad, Down} : \E d \in {Good, Empty} :
       chainState = [specular |-> c, sepolia |-> d]
  /\ Start

Init == InitField \/ InitBatch

\* the folder, file, data, expected mismatches and token at the cursor
CurFolder == folders[i]
CurFile == datadir.files[CurFolder]
CurData == CurFile.data
CurToken == CurData.tokens[j]

\* an exception leaves validate(): the promise rejects, nothing is returned
Throw(why) ==
  /\ pc' = "thrown"
  /\ error' = why
  /\ UNCHANGED <<folders, i, j, stage, cg, fetches>>

\* the for-of over Object.entries(data.tokens) steps on, and past the last
\* pair the for-of over folders does
NextToken ==
  /\ error' = error
  /\ IF j < Len(CurData.tokens)
     THEN /\ j' = j + 1
          /\ stage' = "exists"
          /\ UNCHANGED <<pc, i>>
     ELSE /\ pc' = "entry"
          /\ i' = i + 1
          /\ j' = 0
          /\ stage' = "load"

\* lines 32-39
Enumerate ==
  /\ pc = "enumerate"
  /\ folders' = EnumerateFolders(datadir.listing, tokens)
  /\ pc' = "fetch"
  /\ UNCHANGED <<datadir, tokens, chainState, i, j, stage, cg, fetches, results,
                 calls, error>>

\* lines 41-54
FetchCoinGecko ==
  /\ pc = "fetch"
  /\ \E outcome \in CoinGeckoOutcomes :
       /\ cg' = IF outcome = Thrown THEN NoList ELSE outcome
       /\ results' = results \o FetchDiagnostics(outcome)
  /\ fetches' = fetches + 1
  /\ pc' = "entry"
  /\ i' = 1
  /\ UNCHANGED <<datadir, tokens, chainState, folders, j, stage, calls, error>>

\* lines 56-102: one folder up to the schema validation of its data file
LoadEntry ==
  /\ pc = "entry"
  /\ i <= Len(folders)
  /\ LET missing == OneIf(~CurFile.exists,
                          Diagnostic("error", "data file does not exist", "", CurFolder, ""))
         logo == OneIf(CurFile.logos # 1,
                       Diagnostic("error", "logo files", "", CurFolder, ""))
         errors == TOKEN_DATA_SCHEMA(CurData)
     IN IF ~CurFile.exists
        THEN /\ results' = results \o missing
             /\ Throw("ENOENT")
        ELSE IF ~CurFile.json
        THEN /\ results' = results
             /\ Throw("SyntaxError")
        ELSE IF SchemaShortCircuit(errors)
        THEN /\ results' = results \o logo \o SchemaDiagnostics(CurFolder, errors)
             /\ i' = i + 1
             /\ UNCHANGED <<pc, folders, j, stage, cg, fetches, error>>
        ELSE /\ results' = results \o logo
             /\ pc' = "token"
             /\ j' = 1
             /\ stage' = "exists"
             /\ UNCHANGED <<folders, i, cg, fetches, error>>
  /\ UNCHANGED <<datadir, tokens, chainState, calls>>

\* line 107 false: the pair is not verified
SkipToken ==
  /\ pc = "token"
  /\ stage = "exists"
  /\ ~IsStandard(CurFolder, CurData)
  /\ NextToken
  /\ UNCHANGED <<datadir, tokens, chainState, folders, cg, fetches, results, calls>>

Call(method) == [folder |-> CurFolder, chain |-> CurToken.chain, method |-> method]

\* lines 108-121
CheckExists ==
  /\ pc = "token"
  /\ stage = "exists"
  /\ IsStandard(CurFolder, CurData)
  /\ IF CurToken.chain \notin DOMAIN NETWORK_DATA
     THEN /\ Throw("TypeError")
          /\ UNCHANGED <<results, calls>>
     ELSE LET code == chainState[CurToken.chain].code
          IN /\ calls' = Append(calls, Call("getCode"))
             /\ IF code = Thrown
                THEN /\ Throw("getCode")
                     /\ UNCHANGED results
                ELSE /\ results' = results \o
                          OneIf(code = Str("0x"),
                                Diagnostic("error", "does not exist", "", CurFolder,
                                           CurToken.chain))
                     /\ stage' = "decimals"
                     /\ UNCHANGED <<pc, folders, i, j, cg, fetches, error>>
  /\ UNCHANGED <<datadir, tokens, chainState>>

\* the shape of lines 123-143, 145-168 and 170-193
CheckField(f, next) ==
  /\ pc = "token"
  /\ stage = f
  /\ IF Overridden(CurToken, f)
     THEN /\ results' = Append(results,
                               Diagnostic("warning", "has overridden", f, CurFolder,
                                          CurToken.chain))
          /\ UNCHANGED calls
     ELSE LET verdict == Verdict(f, CurData, CurFile.em, chainState[CurToken.chain][f])
          IN /\ calls' = Append(calls, Call(f))
             /\ results' = results \o
                  [n \in 1..Len(verdict) |->
                     Diagnostic("error", verdict[n], f, CurFolder, CurToken.chain)]
  /\ stage' = next
  /\ UNCHANGED <<datadir, tokens, chainState, pc, folders, i, j, cg, fetches, error>>

\* lines 123-143
CheckDecimals == CheckField("decimals", "symbol")

\* lines 145-168
CheckSymbol == CheckField("symbol", "name")

\* lines 170-193
CheckName == CheckField("name", "coingecko")

\* lines 195-208, then the next pair
CheckCoinGecko ==
  /\ pc = "token"
  /\ stage = "coingecko"
  /\ results' = results \o CoinGeckoDiagnostics(CurFolder, CurToken.chain, CurToken, cg)
  /\ NextToken
  /\ UNCHANGED <<datadir, tokens, chainState, folders, cg, fetches, calls>>

\* lines 213-229: the generated list against the token-list schema
Aggregate ==
  /\ pc = "entry"
  /\ i > Len(folders)
  /\ \E valid \in BOOLEAN :
       results' = results \o
         OneIf(~valid, Diagnostic("error", "final token list is invalid", "", <<>>, ""))
  /\ pc' = "done"
  /\ UNCHANGED <<datadir, tokens, chainState, folders, i, j, stage, cg, fetches,
                 calls, error>>

Next ==
  \/ Enumerate
  \/ FetchCoinGecko
  \/ LoadEntry
  \/ SkipToken
  \/ CheckExists
  \/ CheckDecimals
  \/ CheckSymbol
  \/ CheckName
  \/ CheckCoinGecko
  \/ Aggregate

Spec == Init /\ [][Next]_vars

---------------------------------------------------------------------------
(* Vocabulary of the properties *)

Fields == {"decimals", "symbol", "name"}

StageNo(st) ==
  CASE st = "load" -> 0
    [] st = "exists" -> 1
    [] st = "decimals" -> 2
    [] st = "symbol" -> 3
    [] st = "name" -> 4
    [] st = "coingecko" -> 5

FileOf(k) == datadir.files[folders[k]]
DataOf(k) == FileOf(k).data
TokenOf(k, t) == DataOf(k).tokens[t]
Entries == 1..Len(folders)
Pairs(k) == 1..Len(DataOf(k).tokens)

\* the loop over folders is past entry k
EntryDone(k) == pc \notin {"enumerate", "fetch"} /\ k < i

\* check st of pair t of entry k has run
Past(k, t, st) ==
  /\ pc \notin {"enumerate", "fetch"}
  /\ \/ k < i
     \/ /\ k = i
        /\ stage # "load"
        /\ t < j \/ (t = j /\ StageNo(stage) > StageNo(st))

\* data.json of entry k was read, parsed and conforms to TOKEN_DATA_SCHEMA
Conforms(k) ==
  FileOf(k).exists /\ FileOf(k).json /\ TOKEN_DATA_SCHEMA(DataOf(k)) = <<>>

\* entry k is neither the native asset nor declared nonstandard
NotExempt(k) == folders[k] # ETH /\ DataOf(k).nonstandard # Bool(TRUE)

\* the pairs of entry k are verified against their chains
ChainVerified(k) == Conforms(k) /\ NotExempt(k)

\* the positions in results of the diagnostics of one kind about field f of
\* the pair of entry k on chain c
FieldDiagnostics(k, c, f, type) ==
  {n \in 1..Len(results) :
     /\ results[n].folder = folders[k]
     /\ results[n].chain = c
     /\ results[n].field = f
     /\ results[n].type = type}

\* the chain-level diagnostics of entry k
ChainDiagnostics(k) ==
  {n \in 1..Len(results) : results[n].folder = folders[k] /\ results[n].chain # ""}

\* the RPC requests made for entry k
CallsFor(k) == {n \in 1..Len(calls) : calls[n].folder = folders[k]}

Queried(k, c, method) ==
  \E n \in 1..Len(calls) :
     calls[n] = [folder |-> folders[k], chain |-> c, method |-> method]

\* what the chain answers for field f of pair t of entry k
OnChain(k, t, f) == chainState[TokenOf(k, t).chain][f]

Declared(k, f) == DataOf(k)[f]

Expected(k, f) == FileOf(k).em[f]

---------------------------------------------------------------------------
(* C1 *)

\* C1: for every chain-verified token and every field f of decimals, symbol,
\* name with overrides.f present, once the check of f has run there is exactly
\* one warning about f ("has overridden"), no error about f, and no request
\* for f was sent to the chain, whatever the chain would answer.
C1_OverrideWarnsOnce ==
  \A k \in Entries :
    ChainVerified(k) =>
      \A t \in Pairs(k) : \A f \in Fields :
        (Past(k, t, f) /\ TokenOf(k, t).overrides[f] # Undefined) =>
          /\ Cardinality(FieldDiagnostics(k, TokenOf(k, t).chain, f, "warning")) = 1
          /\ \A n \in FieldDiagnostics(k, TokenOf(k, t).chain, f, "warning") :
               results[n].msg = "has overridden"
          /\ FieldDiagnostics(k, TokenOf(k, t).chain, f, "error") = {}
          /\ ~Queried(k, TokenOf(k, t).chain, f)

\* a finished run with an overridden symbol whose chain value differs from
\* the declaration and an overridden name whose read would fail
C1_Witness ==
  /\ pc = "done"
  /\ \E k \in Entries : \E t \in Pairs(k) :
       /\ ChainVerified(k)
       /\ TokenOf(k, t).overrides.symbol # Undefined
       /\ TokenOf(k, t).overrides.name # Undefined
       /\ TokenOf(k, t).overrides.decimals = Undefined
       /\ OnChain(k, t, "symbol") = Str("BAR")
       /\ OnChain(k, t, "name") = Thrown

---------------------------------------------------------------------------
(* C2 *)

\* C2: for every chain-verified token without a decimals override whose
\* decimals read succeeds and differs from the declared decimals, there is
\* exactly one diagnostic about its decimals, the error "has incorrect
\* decimals", whatever expectedMismatches holds, a decimals key included.
C2_DecimalsMismatchIsError ==
  \A k \in Entries :
    ChainVerified(k) =>
      \A t \in Pairs(k) :
        (/\ Past(k, t, "decimals")
         /\ TokenOf(k, t).overrides.decimals = Undefined
         /\ OnChain(k, t, "decimals") # Thrown
         /\ OnChain(k, t, "decimals") # Declared(k, "decimals")) =>
          /\ Cardinality(FieldDiagnostics(k, TokenOf(k, t).chain, "decimals", "error")) = 1
          /\ \A n \in FieldDiagnostics(k, TokenOf(k, t).chain, "decimals", "error") :
               results[n].msg = "has incorrect"
          /\ FieldDiagnostics(k, TokenOf(k, t).chain, "decimals", "warning") = {}

\* a finished run where the chain says 6, the declaration 18 and
\* expectedMismatches has decimals: 18
C2_Witness ==
  /\ pc = "done"
  /\ \E k \in Entries : \E t \in Pairs(k) :
       /\ ChainVerified(k)
       /\ TokenOf(k, t).overrides.decimals = Undefined
       /\ OnChain(k, t, "decimals") = Num(6)
       /\ Declared(k, "decimals") = Num(18)
       /\ Expected(k, "decimals") = Num(18)
       /\ Queried(k, TokenOf(k, t).chain, "decimals")

---------------------------------------------------------------------------
(* C3 *)

\* C3: for every chain-verified token and f of symbol, name without an
\* override on f whose read succeeds: a chain value that differs from the
\* declared one gives exactly one error "has incorrect f" when
\* expectedMismatches.f is absent or differs from the declared f, and no
\* diagnostic about f at all when expectedMismatches.f equals the declared f;
\* a chain value equal to the declared one gives no diagnostic about f.
C3_SymbolNameMismatch ==
  \A k \in Entries :
    ChainVerified(k) =>
      \A t \in Pairs(k) : \A f \in {"symbol", "name"} :
        (/\ Past(k, t, f)
         /\ TokenOf(k, t).overrides[f] = Undefined
         /\ OnChain(k, t, f) # Thrown) =>
          LET errors == FieldDiagnostics(k, TokenOf(k, t).chain, f, "error")
              warnings == FieldDiagnostics(k, TokenOf(k, t).chain, f, "warning")
          IN /\ warnings = {}
             /\ IF OnChain(k, t, f) # Declared(k, f) /\ Expected(k, f) # Declared(k, f)
                THEN /\ Cardinality(errors) = 1
                     /\ \A n \in errors : results[n].msg = "has incorrect"
                ELSE errors = {}

\* a finished run where the symbol differs and is excused while the name
\* differs and is not
C3_Witness ==
  /\ pc = "done"
  /\ \E k \in Entries : \E t \in Pairs(k) :
       /\ ChainVerified(k)
       /\ TokenOf(k, t).overrides.symbol = Undefined
       /\ TokenOf(k, t).overrides.name = Undefined
       /\ OnChain(k, t, "symbol") = Str("BAR")
       /\ Expected(k, "symbol") = Declared(k, "symbol")
       /\ OnChain(k, t, "name") = Str("Bar")
       /\ Expected(k, "name") = Undefined
       /\ Queried(k, TokenOf(k, t).chain, "symbol")
       /\ Queried(k, TokenOf(k, t).chain, "name")

---------------------------------------------------------------------------
(* C4 *)

\* every chain key declared in the data directory is in the registry
AllChainsKnown ==
  \A name \in Range(datadir.listing) :
    \A t \in 1..Len(datadir.files[name].data.tokens) :
      datadir.files[name].data.tokens[t].chain \in DOMAIN NETWORK_DATA

\* C4: when every declared chain is known, no failure of the list fetch, of
\* the bytecode read or of a decimals / symbol / name call and no missing or
\* non-conforming data file ends the run with an exception: validate() never
\* throws, it goes on to the remaining tokens and entries.
C4_NeverAborts == AllChainsKnown => pc # "thrown"

---------------------------------------------------------------------------
(* C5 *)

\* the diagnostics of entry k that report a schema violation
SchemaErrors(k) ==
  {n \in 1..Len(results) :
     /\ results[n].folder = folders[k]
     /\ results[n].msg = "schema"
     /\ results[n].type = "error"}

\* every entry whose data file was read and does not conform has, once the
\* loop is past it, one error per violation, no chain-level diagnostic and
\* no RPC request
C5_InvalidEntryState ==
  \A k \in Entries :
    (/\ EntryDone(k)
     /\ FileOf(k).exists
     /\ FileOf(k).json
     /\ TOKEN_DATA_SCHEMA(DataOf(k)) # <<>>) =>
      /\ Cardinality(SchemaErrors(k)) = Len(TOKEN_DATA_SCHEMA(DataOf(k)))
      /\ Cardinality(SchemaErrors(k)) >= 1
      /\ ChainDiagnostics(k) = {}
      /\ CallsFor(k) = {}

\* the step that finds the data file of the entry at the cursor non-conforming
\* leaves the run in the folder loop, at the next folder
C5_InvalidEntryStep ==
  (/\ pc = "entry"
   /\ i <= Len(folders)
   /\ FileOf(i).exists
   /\ FileOf(i).json
   /\ TOKEN_DATA_SCHEMA(DataOf(i)) # <<>>) =>
    (pc' = "entry" /\ i' = i + 1 /\ error' = "" /\ calls' = calls)

---------------------------------------------------------------------------
(* C6 *)

\* C6: the entry in folder ETH and every entry with nonstandard = true cause
\* no RPC request and get no chain-level diagnostic for any of their pairs,
\* whatever they declare and whatever the chains hold.
C6_ExemptEntriesNotVerified ==
  \A k \in Entries :
    (folders[k] = ETH \/ DataOf(k).nonstandard = Bool(TRUE)) =>
      /\ CallsFor(k) = {}
      /\ ChainDiagnostics(k) = {}

\* a finished run with a conforming ETH entry that declares overrides on a
\* chain where its address holds no contract
C6_Witness ==
  /\ pc = "done"
  /\ \E k \in Entries :
       /\ folders[k] = ETH
       /\ Conforms(k)
       /\ DataOf(k).nonstandard = Undefined
       /\ \E t \in Pairs(k) :
            /\ TokenOf(k, t).overrides.decimals # Undefined
            /\ chainState[TokenOf(k, t).chain] = Empty

---------------------------------------------------------------------------
(* C7 *)

\* the chain whose tokens are looked up in the CoinGecko list
PrivilegedChain == "ethereum"

\* the "not found" warnings about the pair of entry k on chain c
NotFoundWarnings(k, c) ==
  {n \in 1..Len(results) :
     /\ results[n].folder = folders[k]
     /\ results[n].chain = c
     /\ results[n].msg = "not found on CoinGecko token list"}

ListedOnCoinGecko(address) ==
  \E n \in 1..Len(cg.tokens) :
    \A p \in 1..Len(address) :
      Len(cg.tokens[n]) = Len(address) /\
      ToLowerChar(cg.tokens[n][p]) = ToLowerChar(address[p])

CoinGeckoCheckNeverFires ==
  \A n \in 1..Len(results) : results[n].msg # "not found on CoinGecko token list"

---------------------------------------------------------------------------
(* C8 *)

\* the positions of the warning about the failed fetch
FetchWarnings ==
  {n \in 1..Len(results) : results[n].msg = "fetch for CoinGecko token list failed"}

\* C8: the list is requested once, before any entry is touched; after a
\* failed fetch results starts with the one warning about it, no "not found"
\* diagnostic is ever added, and the run goes on: when it ends normally every
\* folder was walked and every chain-verified pair had its bytecode and its
\* fields without override read.
C8_FetchOnceFailSoft ==
  /\ fetches <= 1
  /\ fetches = 0 => (i = 0 /\ results = <<>> /\ calls = <<>>)
  /\ pc \notin {"enumerate", "fetch"} => fetches = 1
  /\ (fetches = 1 /\ cg.fetched) => FetchWarnings = {}
  /\ (fetches = 1 /\ ~cg.fetched) =>
       /\ FetchWarnings = {1}
       /\ results[1].type = "warning"
       /\ \A n \in 1..Len(results) : results[n].msg # "not found on CoinGecko token list"
       /\ pc = "thrown" => error # "fetch"
       /\ pc = "done" =>
            /\ i = Len(folders) + 1
            /\ \A k \in Entries : ChainVerified(k) =>
                 \A t \in Pairs(k) :
                   /\ Queried(k, TokenOf(k, t).chain, "getCode")
                   /\ \A f \in Fields :
                        TokenOf(k, t).overrides[f] = Undefined =>
                          Queried(k, TokenOf(k, t).chain, f)

\* a run that ended normally after a failed fetch, over two folders, with
\* chain-level diagnostics behind the warning
C8_Witness ==
  /\ pc = "done"
  /\ fetches = 1
  /\ ~cg.fetched
  /\ Len(folders) >= 2
  /\ \E k \in Entries : ChainVerified(k) /\ ChainDiagnostics(k) # {}
  /\ results[Len(results)].msg = "final token list is invalid"

---------------------------------------------------------------------------
(* C9 *)

\* a is not behind b in the alphabetical order that ignores case
CaseInsensitiveLeq(a, b) ==
  \/ /\ Len(a) <= Len(b)
     /\ \A q \in 1..Len(a) : ToLowerChar(a[q]) = ToLowerChar(b[q])
  \/ \E p \in 1..Len(a) :
       /\ p <= Len(b)
       /\ \A q \in 1..(p - 1) : ToLowerChar(a[q]) = ToLowerChar(b[q])
       /\ ToLowerChar(a[p]) < ToLowerChar(b[p])

\* the place of chain c in the declaration order of the tokens of a folder
ChainIndex(folder, c) ==
  CHOOSE t \in 1..Len(datadir.files[folder].data.tokens) :
    datadir.files[folder].data.tokens[t].chain = c

\* C9: results is in canonical order: the diagnostics of the entries appear
\* in the case-insensitive order of the folder names, only requested folders
\* appear, the diagnostics of one entry are contiguous (whenever two are about
\* one folder, so is the successor of the first), within an entry the
\* entry-level diagnostics come first and the chain-level ones follow the
\* declaration order of the chains, the fetch warning is first and the error
\* about the final list last.
C9_CanonicalOrder ==
  \A m, n \in 1..Len(results) :
    m < n =>
      LET a == results[m]
          b == results[n]
      IN /\ b.msg = "fetch for CoinGecko token list failed" => FALSE
         /\ a.msg = "final token list is invalid" => FALSE
         /\ (a.folder # <<>> /\ b.folder # <<>>) =>
              /\ CaseInsensitiveLeq(a.folder, b.folder)
              /\ tokens # NoFilter => (a.folder \in tokens /\ b.folder \in tokens)
              /\ a.folder = b.folder =>
                   /\ results[m + 1].folder = a.folder
                   /\ b.chain = "" => a.chain = ""
                   /\ (a.chain # "" /\ b.chain # "") =>
                        ChainIndex(a.folder, a.chain) <= ChainIndex(a.folder, b.chain)

\* a finished run over B and a, listed in that order, with diagnostics about
\* a ahead of diagnostics about both chains of B
C9_Witness ==
  /\ pc = "done"
  /\ datadir.listing = <<<<66>>, <<97>>>>
  /\ \E m, n, l \in 1..Len(results) :
       /\ m < n /\ n < l
       /\ results[m].folder = <<97>>
       /\ results[n].folder = <<66>>
       /\ results[l].folder = <<66>>
       /\ results[n].chain # ""
       /\ results[l].chain # ""
       /\ results[n].chain # results[l].chain

---------------------------------------------------------------------------
(* C10 *)

\* no diagnostic about field f of pair t of entry k
Silent(k, t, f) ==
  /\ FieldDiagnostics(k, TokenOf(k, t).chain, f, "error") = {}
  /\ FieldDiagnostics(k, TokenOf(k, t).chain, f, "warning") = {}

\* C10 as claimed: for f of symbol, name without override, a chain value that
\* differs from the declared one is accepted silently only when it equals
\* expectedMismatches.f, and a chain value equal to neither the declared value
\* nor expectedMismatches.f gives an error about f.
C10_EscapeVerifiesChain ==
  \A k \in Entries :
    ChainVerified(k) =>
      \A t \in Pairs(k) : \A f \in {"symbol", "name"} :
        (/\ Past(k, t, f)
         /\ TokenOf(k, t).overrides[f] = Undefined
         /\ OnChain(k, t, f) # Thrown
         /\ OnChain(k, t, f) # Declared(k, f)) =>
          /\ Silent(k, t, f) => OnChain(k, t, f) = Expected(k, f)
          /\ OnChain(k, t, f) # Expected(k, f) =>
               FieldDiagnostics(k, TokenOf(k, t).chain, f, "error") # {}

\* C10 amended: the escape is decided by the declaration alone: a chain value
\* that differs from the declared one is accepted silently exactly when
\* expectedMismatches.f equals the declared f, so also when the chain value
\* equals nothing on record, and a chain value equal to expectedMismatches.f
\* but not to the declared f gives an error.
C10_EscapeIgnoresChain ==
  \A k \in Entries :
    ChainVerified(k) =>
      \A t \in Pairs(k) : \A f \in {"symbol", "name"} :
        (/\ Past(k, t, f)
         /\ TokenOf(k, t).overrides[f] = Undefined
         /\ OnChain(k, t, f) # Thrown
         /\ OnChain(k, t, f) # Declared(k, f)) =>
          /\ Silent(k, t, f) <=> Expected(k, f) = Declared(k, f)
          /\ OnChain(k, t, f) = Expected(k, f) =>
               Cardinality(FieldDiagnostics(k, TokenOf(k, t).chain, f, "error")) = 1

\* a finished run where the chain's name equals the recorded expectation and
\* not the declaration, and the chain's symbol equals neither while the
\* recorded expectation is the declared symbol
C10_Witness ==
  /\ pc = "done"
  /\ \E k \in Entries : \E t \in Pairs(k) :
       /\ ChainVerified(k)
       /\ TokenOf(k, t).overrides.symbol = Undefined
       /\ TokenOf(k, t).overrides.name = Undefined
       /\ OnChain(k, t, "name") = Str("Bar")
       /\ Expected(k, "name") = Str("Bar")
       /\ Declared(k, "name") = Str("Foo")
       /\ OnChain(k, t, "symbol") = Str("BAZ")
       /\ Expected(k, "symbol") = Str("FOO")
       /\ Declared(k, "symbol") = Str("FOO")
       /\ Queried(k, TokenOf(k, t).chain, "name")
       /\ Queried(k, TokenOf(k, t).chain, "symbol")

====
